---------------------------- MODULE Spec2Model ----------------------------
(***************************************************************************)
(* A model of pychebfun (src/pychebfun/chebfun.py): Chebyshev interpolants *)
(* on [-1, 1], their construction from values, coefficients, other         *)
(* interpolants and callables, and their arithmetic and calculus.          *)
(*                                                                         *)
(* Numbers.  A float is modelled as an exact real number of the field      *)
(* Q(sqrt 2): the triple <<a, b, d>> stands for (a + b*sqrt(2)) / d, with  *)
(* d > 0 and gcd(a, b, d) = 1, so that equal numbers are equal triples.    *)
(* This field holds the Chebyshev nodes cos(j*pi/N) for N = 1, 2, 3, 4,    *)
(* hence every sample, coefficient and transform of an interpolant with at *)
(* most five values is computed exactly.  Floating point rounding is not   *)
(* modelled.  An array carries its numpy dtype ("int" or "float") because  *)
(* an assignment into an integer array truncates.                          *)
(***************************************************************************)
EXTENDS Integers, Sequences, FiniteSets, TLC

-----------------------------------------------------------------------------
(* Exact arithmetic in Q(sqrt 2) *)

IAbs(n) == IF n < 0 THEN -n ELSE n

RECURSIVE Gcd(_, _)
Gcd(x, y) == IF y = 0 THEN x ELSE Gcd(y, x % y)

Reduce(a, b, d, g) == <<a \div g, b \div g, d \div g>>
Norm(a, b, d) == Reduce(a, b, d, Gcd(Gcd(IAbs(a), IAbs(b)), d))

Q(n) == <<n, 0, 1>>
Zero == <<0, 0, 1>>
One == <<1, 0, 1>>
Half == <<1, 0, 2>>

NAdd(x, y) == Norm(x[1] * y[3] + y[1] * x[3], x[2] * y[3] + y[2] * x[3], x[3] * y[3])
NNeg(x) == <<-x[1], -x[2], x[3]>>
NSub(x, y) == NAdd(x, NNeg(y))
NMul(x, y) == Norm(x[1] * y[1] + 2 * x[2] * y[2], x[1] * y[2] + x[2] * y[1], x[3] * y[3])

ISgn(n) == IF n > 0 THEN 1 ELSE IF n < 0 THEN -1 ELSE 0

\* the sign of a + b*sqrt(2)
Sgn2(a, b) ==
    IF a >= 0 /\ b >= 0 THEN (IF a = 0 /\ b = 0 THEN 0 ELSE 1)
    ELSE IF a <= 0 /\ b <= 0 THEN -1
    ELSE ISgn((IF a > 0 THEN 1 ELSE -1) * (a * a - 2 * b * b))
NSgn(x) == Sgn2(x[1], x[2])

NLe(x, y) == NSgn(NSub(y, x)) >= 0
NAbs(x) == IF NSgn(x) < 0 THEN NNeg(x) ELSE x
NMaxOf(x, y) == IF NLe(x, y) THEN y ELSE x

\* 1 / x for x # 0: (a - b*sqrt 2) * d / (a^2 - 2 b^2)
Conj(x, n) == Norm(ISgn(n) * x[1] * x[3], -ISgn(n) * x[2] * x[3], IAbs(n))
NInv(x) == Conj(x, x[1] * x[1] - 2 * x[2] * x[2])

NDiv(x, y) == NMul(x, NInv(y))

\* x ** n for an integer n >= 0
RECURSIVE NPow(_, _)
NPow(x, n) == IF n = 0 THEN One ELSE NMul(x, NPow(x, n - 1))

\* the integer part of x, rounded towards zero (a C cast of a double to long)
RECURSIVE TruncUp(_, _)
TruncUp(x, n) == IF NSgn(NSub(Q(n + 1), x)) > 0 THEN n ELSE TruncUp(x, n + 1)
Trunc(x) == IF NSgn(x) >= 0 THEN Q(TruncUp(x, 0)) ELSE Q(-TruncUp(NNeg(x), 0))

-----------------------------------------------------------------------------
(* Sequences of numbers (numpy arrays, by value) *)

RECURSIVE NSum(_)
NSum(s) == IF s = <<>> THEN Zero ELSE NAdd(Head(s), NSum(Tail(s)))

RECURSIVE NMaxSeq(_)
NMaxSeq(s) == IF Len(s) = 1 THEN s[1] ELSE NMaxOf(s[1], NMaxSeq(Tail(s)))

AbsSeq(s) == [i \in 1..Len(s) |-> NAbs(s[i])]
ScaleSeq(s, c) == [i \in 1..Len(s) |-> NMul(s[i], c)]
Prefix(s, n) == SubSeq(s, 1, n)

\* np.max(np.abs(a))
MaxAbs(s) == NMaxSeq(AbsSeq(s))

-----------------------------------------------------------------------------
(* Cosines: cos(t*pi/12) for the multiples t of pi/12 that lie in Q(sqrt 2) *)

CosTwelfth(t) ==
    CASE t = 0 -> <<1, 0, 1>>
      [] t = 3 -> <<0, 1, 2>>
      [] t = 4 -> <<1, 0, 2>>
      [] t = 6 -> <<0, 0, 1>>
      [] t = 8 -> <<-1, 0, 2>>
      [] t = 9 -> <<0, -1, 2>>
      [] t = 12 -> <<-1, 0, 1>>
      [] t = 15 -> <<0, -1, 2>>
      [] t = 16 -> <<-1, 0, 2>>
      [] t = 18 -> <<0, 0, 1>>
      [] t = 20 -> <<1, 0, 2>>
      [] t = 21 -> <<0, 1, 2>>

\* cos(2*pi*p/q), for the lengths q in {1, 2, 4, 6, 8}
CosTurn(p, q) == CosTwelfth(((24 * p) \div q) % 24)

\* the grids whose nodes cos(j*pi/N) are numbers of the model
ExactDegrees == {1, 2, 3, 4}

-----------------------------------------------------------------------------
(* Interpolation and evaluation: values <-> coefficients *)

\* data[-2:0:-1]: the interior entries, last first
even_data(data) ==
    data \o [i \in 1..(IF Len(data) > 2 THEN Len(data) - 2 ELSE 0) |-> data[Len(data) - i]]

interpolation_points(N) ==
    IF N = 1 THEN <<Zero>>
    ELSE [j \in 1..N |-> CosTurn(j - 1, 2 * (N - 1))]

\* the real part of fftpack.fft(data): sum_n data[n] cos(2 pi k n / L)
FftReal(data) ==
    [k \in 1..Len(data) |->
        NSum([n \in 1..Len(data) |-> NMul(data[n], CosTurn((k - 1) * (n - 1), Len(data)))])]

\* the real part of fftpack.ifft(data)
IfftReal(data) == ScaleSeq(FftReal(data), <<1, 0, Len(data)>>)

\* a[i] *= c for the 1-based indices i, j
ScaleAt(a, i, j, c) == [k \in 1..Len(a) |-> IF k = i \/ k = j THEN NMul(a[k], c) ELSE a[k]]

\* dct without fftdata[-1] /= 2.
dctFirstOnly(data) ==
    ScaleAt(ScaleSeq(Prefix(FftReal(data), Len(data) \div 2 + 1), <<1, 0, Len(data) \div 2>>),
            1, 1, Half)

\* dct(data): fftdata = fft(data)[:N+1]; fftdata /= N; fftdata[0] /= 2.; fftdata[-1] /= 2.
dct(data) ==
    ScaleAt(ScaleSeq(Prefix(FftReal(data), Len(data) \div 2 + 1), <<1, 0, Len(data) \div 2>>),
            1, Len(data) \div 2 + 1, Half)

chebpolyfit(sampled) ==
    IF Len(sampled) = 1 THEN sampled
    ELSE dct(even_data(sampled))

\* chebpolyval(chebcoeff): data = even_data(chebcoeff)/2; data[0] *= 2; data[N-1] *= 2;
\* fftdata = 2*(N-1)*ifft(data); values = real(fftdata[:N])
chebpolyval(chebcoeff) ==
    IF Len(chebcoeff) = 1 THEN chebcoeff
    ELSE Prefix(ScaleSeq(IfftReal(ScaleAt(ScaleSeq(even_data(chebcoeff), Half),
                                          1, Len(chebcoeff), <<2, 0, 1>>)),
                         <<2 * (Len(chebcoeff) - 1), 0, 1>>),
                Len(chebcoeff))

-----------------------------------------------------------------------------
(* Scales and thresholds.  A scale is a pair <<m, e>> standing for the     *)
(* float m * 2^e, so that a scale and the threshold 128*emach*scale (45    *)
(* binary orders apart) are both numbers of the model.                     *)

\* emach = sys.float_info.epsilon = 2^-52
EmachLog2 == 52

Sc(m) == <<m, 0>>

\* the sign of x * 2^k - y, for k >= 0
RECURSIVE CmpShift(_, _, _)
CmpShift(x, k, y) ==
    IF k = 0 THEN NSgn(NSub(x, y))
    ELSE IF NSgn(x) = 0 THEN NSgn(NNeg(y))
    ELSE IF NSgn(x) < 0 THEN -CmpShift(NNeg(x), k, NNeg(y))
    ELSE IF NSgn(NSub(x, y)) > 0 THEN 1
    ELSE CmpShift(NMul(x, Q(2)), k - 1, y)

\* the sign of s - t
ScCmp(s, t) ==
    IF s[2] >= t[2] THEN CmpShift(s[1], s[2] - t[2], t[1])
    ELSE -CmpShift(t[1], t[2] - s[2], s[1])

ScLe(s, t) == ScCmp(s, t) <= 0
ScMax(s, t) == IF ScLe(s, t) THEN t ELSE s

\* Chebfun._threshold: bnd = 128*emach*scale
_threshold(scale) == <<scale[1], scale[2] + 7 - EmachLog2>>

\* np.nonzero(abs(coeffs) >= bnd)[0]
NonNegligibleStrict(coeffs, scale) ==
    {i \in 1..Len(coeffs) : ~ScLe(Sc(NAbs(coeffs[i])), _threshold(scale))}

NonNegligible(coeffs, scale) ==
    {i \in 1..Len(coeffs) : ScLe(_threshold(scale), Sc(NAbs(coeffs[i])))}

\* _cutoff without its else branch N = 0: no index qualifies, and the cutoff is 0
LastIndexOrNone(inds) ==
    IF inds # {} THEN (CHOOSE x \in inds : \A y \in inds : y <= x) - 1 ELSE -1

\* Chebfun._cutoff; inds[0][-1] is the greatest index, less one in 0-based indices
LastIndex(inds) ==
    IF inds # {} THEN (CHOOSE x \in inds : \A y \in inds : y <= x) - 1 ELSE 0
_cutoff(coeffs, scale) == LastIndex(NonNegligible(coeffs, scale)) + 1

-----------------------------------------------------------------------------
(* Interpolants, by value: the sampled values, their dtype and the scale.   *)

\* Python's None; an optional integer argument n is the tuple <<n>>
None == <<>>

\* Chebfun.__init__(values, scale): _values and _scale
Chebfun(values, dt, scale) ==
    [values |-> values,
     dt |-> dt,
     scale |-> IF scale # None THEN scale ELSE Sc(MaxAbs(values))]

size(o) == Len(o.values)

\* the dtype of chebpolyfit(sampled) and of chebpolyval(chebcoeff): a length-1
\* array is returned as it is, any other goes through the FFT and is a float
TransformDtype(n, dt) == IF n = 1 THEN dt ELSE "float"

chebyshev_coefficients(o) == chebpolyfit(o.values)

\* the default of from_chebcoeff's scale parameter, 1.
DefaultScale == Sc(One)

\* from_chebcoeff's local pruned_coeffs
pruned_coeffs(chebcoeff, prune, scale) ==
    IF prune THEN Prefix(chebcoeff, _cutoff(chebcoeff, scale)) ELSE chebcoeff

\* Chebfun.from_chebcoeff(chebcoeff, prune, scale)
FromPruned(pruned, dt, scale) ==
    Chebfun(chebpolyval(pruned), TransformDtype(Len(pruned), dt), scale)
from_chebcoeff(chebcoeff, dt, prune, scale) ==
    FromPruned(pruned_coeffs(chebcoeff, prune, scale), dt, scale)

-----------------------------------------------------------------------------
(* Callables.  A function to sample is a polynomial lambda x: c0 + c1*x +   *)
(* c2*x**2 + ..., or one of the pointwise functions the operators build     *)
(* from interpolants.                                                       *)

RECURSIVE Horner(_, _)
Horner(c, x) == IF Len(c) = 1 THEN c[1] ELSE NAdd(c[1], NMul(x, Horner(Tail(c), x)))

\* interpolator(): the barycentric weights, ones with w[0] = .5, w[1::2] = -1, w[-1] *= .5
Weights(N) ==
    ScaleAt([i \in 1..N |-> IF i % 2 = 0 THEN <<-1, 0, 1>> ELSE IF i = 1 THEN Half ELSE One],
            N, N, Half)

\* Chebfun.__call__: BarycentricInterpolator's value at x, the sample itself at a node
\* p = np.dot(c, yi) / np.sum(c) with c = wi / (x - xi)
Quotient(c, yi) == NDiv(NSum([i \in 1..Len(c) |-> NMul(c[i], yi[i])]), NSum(c))
Barycentric(wi, xi, yi, x) ==
    IF \E i \in 1..Len(xi) : xi[i] = x
    THEN yi[CHOOSE i \in 1..Len(xi) : xi[i] = x]
    ELSE Quotient([i \in 1..Len(xi) |-> NDiv(wi[i], NSub(x, xi[i]))], yi)
Evaluate(o, x) == Barycentric(Weights(size(o)), interpolation_points(size(o)), o.values, x)

PolyFn(c) == [kind |-> "poly", c |-> c]
\* lambda x: op(self(x), other(x)), and an interpolant called as a function (b unused)
OpFn(op, a, b) == [kind |-> op, a |-> a, b |-> b]

\* op(u, v) for the operators of _add_operator
Operate(op, u, v) ==
    CASE op = "chebfun" -> u
      [] op = "__mul__" -> NMul(u, v)
      [] op = "__div__" -> NDiv(u, v)
      [] op = "__rdiv__" -> NDiv(v, u)
      [] op = "__pow__" -> NPow(u, v[1])

\* f(x) at one point
ApplyAt(f, x) ==
    IF f.kind = "poly" THEN Horner(f.c, x)
    ELSE Operate(f.kind, Evaluate(f.a, x), Evaluate(f.b, x))

Map(f, x) == [i \in 1..Len(x) |-> ApplyAt(f, x[i])]
sample_function(f, N) == Map(f, interpolation_points(N + 1))

-----------------------------------------------------------------------------
(* The adaptive degree search *)

RECURSIVE Pow2(_)
Pow2(k) == IF k = 0 THEN 1 ELSE 2 * Pow2(k - 1)

\* coeffs[-2:]
LastTwo(coeffs) == SubSeq(coeffs, IF Len(coeffs) > 2 THEN Len(coeffs) - 1 ELSE 1, Len(coeffs))

\* one pass of dichotomy's loop body: the locals N, sampled, coeffs, bnd, last
Pass(k, coeffs) ==
    [k |-> k,
     N |-> Pow2(k),
     coeffs |-> coeffs,
     bnd |-> _threshold(Sc(MaxAbs(coeffs))),
     last |-> AbsSeq(LastTwo(coeffs))]
Trial(f, k) == Pass(k, chebpolyfit(sample_function(f, Pow2(k))))

\* the test with np.any in place of np.all
ConvergedAny(t) == \E i \in 1..Len(t.last) : ScLe(Sc(t.last[i]), t.bnd)

\* np.all(last <= bnd)
Converged(t) == \A i \in 1..Len(t.last) : ScLe(Sc(t.last[i]), t.bnd)

\* the rest of the loop "for k in xrange(k, kmax)" and its else clause; trials are
\* the passes made so far.  With no pass made, coeffs, last and bnd are unbound.
ExhaustedStrict(raise_no_convergence, trials, t) ==
    IF trials = <<>>
    THEN [status |-> "UnboundLocalError", coeffs |-> <<>>, args |-> <<>>, trials |-> trials]
    ELSE [status |-> "NoConvergence", coeffs |-> <<>>, args |-> <<t.last, t.bnd>>,
          trials |-> trials]

Exhausted(raise_no_convergence, trials, t) ==
    IF trials = <<>>
    THEN [status |-> "UnboundLocalError", coeffs |-> <<>>, args |-> <<>>, trials |-> trials]
    ELSE IF raise_no_convergence
    THEN [status |-> "NoConvergence", coeffs |-> <<>>, args |-> <<t.last, t.bnd>>,
          trials |-> trials]
    ELSE [status |-> "return", coeffs |-> t.coeffs, args |-> <<>>, trials |-> trials]

RECURSIVE DichotomyLoop(_, _, _, _, _)
LoopBody(f, k, kmax, raise_no_convergence, trials, t) ==
    IF Converged(t)
    THEN [status |-> "return", coeffs |-> t.coeffs, args |-> <<>>, trials |-> Append(trials, t)]
    ELSE DichotomyLoop(f, k + 1, kmax, raise_no_convergence, Append(trials, t))

DichotomyLoop(f, k, kmax, raise_no_convergence, trials) ==
    IF k >= kmax
    THEN Exhausted(raise_no_convergence, trials, trials[Len(trials)])
    ELSE LoopBody(f, k, kmax, raise_no_convergence, trials, Trial(f, k))

\* Chebfun.dichotomy(f, kmin, kmax, raise_no_convergence)
dichotomy(f, kmin, kmax, raise_no_convergence) ==
    DichotomyLoop(f, kmin, kmax, raise_no_convergence, <<>>)

\* dichotomy's defaults kmin=2, kmax=12
DefaultKmin == 2
DefaultKmax == 12

\* int(np.log2(N)) for an integer N >= 1
RECURSIVE IntLog2(_)
IntLog2(N) == IF N < 2 THEN 0 ELSE 1 + IntLog2(N \div 2)

\* the keyword arguments from_function passes to dichotomy
NarrowedStrict(nextpow2) ==
    [kmin |-> nextpow2, kmax |-> nextpow2 + 1, raise_no_convergence |-> TRUE]

Narrowed(nextpow2) ==
    [kmin |-> nextpow2, kmax |-> nextpow2 + 1, raise_no_convergence |-> FALSE]
DichotomyArgs(N) ==
    IF N # None
    THEN Narrowed(IntLog2(N[1]) + 1)
    ELSE [kmin |-> DefaultKmin, kmax |-> DefaultKmax, raise_no_convergence |-> TRUE]

\* the search d, then the interpolant (ret) unless the search raised
Construct(d) ==
    [status |-> d.status,
     search |-> d,
     ret |-> IF d.status = "return"
             THEN from_chebcoeff(d.coeffs, "float", TRUE, DefaultScale)
             ELSE None]
Search(f, args) == dichotomy(f, args.kmin, args.kmax, args.raise_no_convergence)

\* Chebfun.from_function(f, N)
from_function(f, N) == Construct(Search(f, DichotomyArgs(N)))

-----------------------------------------------------------------------------
(* Bounds and inputs *)

\* the longest array of values or coefficients handed to a function
MaxLen == 3
\* the highest degree of a sampled polynomial lambda
MaxDeg == 3
\* the largest degree hint N handed to from_function
MaxHint == 3

SeqsUpTo(S, n) == UNION {[1..m -> S] : m \in 1..n}

\* array entries
Entries == {Q(-1), Zero, Half, One}
Arrays == SeqsUpTo(Entries, MaxLen)

\* scales: 0, 1, and scales whose threshold 128*emach*scale is 1/2 and 1
Scales == {Sc(Zero), Sc(One), <<Half, EmachLog2 - 7>>, <<One, EmachLog2 - 7>>}

\* the polynomial lambdas, by their monomial coefficients
PolyFns == {PolyFn(c) : c \in SeqsUpTo({Q(-1), Zero, One}, MaxDeg + 1)}

\* the search ranges: the exponents k whose grid of 2^k + 1 nodes is exact, and the default
KminInputs == {0, 1, 2}
KmaxInputs == {0, 1, 2, 3, DefaultKmax}

\* every pass that dichotomy(f, kmin, kmax) makes samples an exact grid
RECURSIVE ExactSearch(_, _, _)
ExactSearch(f, kmin, kmax) ==
    \/ kmin >= kmax
    \/ /\ Pow2(kmin) \in ExactDegrees
       /\ Converged(Trial(f, kmin)) \/ ExactSearch(f, kmin + 1, kmax)

-----------------------------------------------------------------------------
(* State *)

VARIABLES
    bufs,   \* the arrays held by interpolants: bufs[b] is the content of array b
    objs,   \* the interpolants, in order of construction
    call    \* the last call made: its name, arguments and outcome

vars == <<bufs, objs, call>>

Idle == [op |-> "none"]

-----------------------------------------------------------------------------
(* The functions of the module, called on their own *)

CallDichotomy(f, kmin, kmax, raise_no_convergence) ==
    /\ call = Idle
    /\ ExactSearch(f, kmin, kmax)
    /\ call' = [op |-> "dichotomy", f |-> f, kmin |-> kmin, kmax |-> kmax,
                raise_no_convergence |-> raise_no_convergence,
                out |-> dichotomy(f, kmin, kmax, raise_no_convergence)]
    /\ UNCHANGED <<bufs, objs>>

ExactArgs(f, args) == ExactSearch(f, args.kmin, args.kmax)

CallFromFunction(f, N) ==
    /\ call = Idle
    /\ ExactArgs(f, DichotomyArgs(N))
    /\ call' = [op |-> "from_function", f |-> f, N |-> N, out |-> from_function(f, N)]
    /\ UNCHANGED <<bufs, objs>>

FromChebcoeffCall(chebcoeff, prune, scale, again) ==
    [op |-> "from_chebcoeff", chebcoeff |-> chebcoeff, prune |-> prune,
     scale |-> scale, again |-> again,
     pruned |-> pruned_coeffs(chebcoeff, prune, scale),
     out |-> from_chebcoeff(chebcoeff, "float", prune, scale)]

CallFromChebcoeff(chebcoeff, prune, scale) ==
    /\ call = Idle
    /\ call' = FromChebcoeffCall(chebcoeff, prune, scale, FALSE)
    /\ UNCHANGED <<bufs, objs>>

\* from_chebcoeff once more, on the series it has just pruned and with the same scale
CallFromChebcoeffAgain ==
    /\ call.op = "from_chebcoeff"
    /\ ~call.again
    /\ call' = FromChebcoeffCall(call.pruned, call.prune, call.scale, TRUE)
    /\ UNCHANGED <<bufs, objs>>

CallChebpolyfit(sampled) ==
    /\ call = Idle
    /\ call' = [op |-> "chebpolyfit", sampled |-> sampled, out |-> chebpolyfit(sampled)]
    /\ UNCHANGED <<bufs, objs>>

CallChebpolyval(chebcoeff) ==
    /\ call = Idle
    /\ call' = [op |-> "chebpolyval", chebcoeff |-> chebcoeff, of |-> None,
                out |-> chebpolyval(chebcoeff)]
    /\ UNCHANGED <<bufs, objs>>

\* chebpolyval on the coefficients chebpolyfit has just returned for the samples "of"
CallChebpolyvalOfFit ==
    /\ call.op = "chebpolyfit"
    /\ call' = [op |-> "chebpolyval", chebcoeff |-> call.out, of |-> call.sampled,
                out |-> chebpolyval(call.out)]
    /\ UNCHANGED <<bufs, objs>>

\* Chebfun.from_data(data): the values as given
CallFromData(data) ==
    /\ call = Idle
    /\ call' = [op |-> "from_data", data |-> data, out |-> Chebfun(data, "float", None)]
    /\ UNCHANGED <<bufs, objs>>

InitFn ==
    /\ bufs = <<>>
    /\ objs = <<>>
    /\ call = Idle

NextFn ==
    \/ \E f \in PolyFns, kmin \in KminInputs, kmax \in KmaxInputs, r \in BOOLEAN :
          CallDichotomy(f, kmin, kmax, r)
    \/ \E f \in PolyFns, N \in {None} \cup {<<n>> : n \in 1..MaxHint} :
          CallFromFunction(f, N)
    \/ \E c \in Arrays, prune \in BOOLEAN, s \in Scales : CallFromChebcoeff(c, prune, s)
    \/ CallFromChebcoeffAgain
    \/ \E v \in Arrays : CallChebpolyfit(v)
    \/ \E c \in Arrays : CallChebpolyval(c)
    \/ CallChebpolyvalOfFit
    \/ \E data \in Arrays : CallFromData(data)

SpecFn == InitFn /\ [][NextFn]_vars

-----------------------------------------------------------------------------
(* The adaptive search: claims C1, C2, C3 *)

\* 128 * machineEpsilon * max|coeffs|, and the test on the last two coefficients
Bound(coeffs) == <<MaxAbs(coeffs), 7 - EmachLog2>>
Accepts(coeffs) ==
    \A i \in 1..Len(coeffs) : i >= Len(coeffs) - 1 => ScLe(Sc(NAbs(coeffs[i])), Bound(coeffs))

Searched == call.op = "dichotomy"
Passes == call.out.trials
Final == Passes[Len(Passes)].coeffs

\* C1: dichotomy tries k = kmin, kmin+1, ... in increasing order on 2^k + 1 nodes; no
\* pass before the last one meets the test on its last two coefficients; it goes on
\* while the range has exponents left and the test fails; and when the last pass meets
\* the test it returns exactly that pass's coefficients.  So it stops at the first
\* converged exponent of the range and tries none beyond it.
C1_FirstConverged ==
    Searched =>
        /\ \A i \in 1..Len(Passes) :
              /\ Passes[i].k = call.kmin + i - 1
              /\ Passes[i].k < call.kmax
              /\ Len(Passes[i].coeffs) = Pow2(Passes[i].k) + 1
              /\ i < Len(Passes) => ~Accepts(Passes[i].coeffs)
        /\ Passes # <<>> /\ Accepts(Final) =>
              call.out.status = "return" /\ call.out.coeffs = Final
        /\ Passes # <<>> /\ ~Accepts(Final) => Len(Passes) = call.kmax - call.kmin
        /\ Passes = <<>> => call.kmin >= call.kmax

\* a search that converged on its third pass with exponents of the range left untried
C1_Witness ==
    /\ Searched
    /\ Len(Passes) = 3
    /\ Accepts(Final)
    /\ call.kmin + 3 < call.kmax
    /\ call.out.status = "return"

C2_WitnessSilent ==
    /\ Searched
    /\ Len(Passes) >= 2
    /\ ~call.raise_no_convergence
    /\ ~Accepts(Final)
    /\ call.out.status = "return"

Hinted == call.op = "from_function" /\ call.N # None
HintPasses == call.out.search.trials

\* ceil(log2 N0) for N0 >= 1
RECURSIVE CeilLog2(_)
CeilLog2(N0) == IF N0 <= 1 THEN 0 ELSE 1 + CeilLog2((N0 + 1) \div 2)

\* C3 as stated: with a hint N0 the passes are k = ceil(log2 N0) and then, unless that
\* one converged, k + 1; and NoConvergence is never raised.
C3_TwoExponents ==
    Hinted =>
        /\ HintPasses # <<>>
        /\ HintPasses[1].k = CeilLog2(call.N[1])
        /\ IF Accepts(HintPasses[1].coeffs)
           THEN Len(HintPasses) = 1
           ELSE Len(HintPasses) = 2 /\ HintPasses[2].k = CeilLog2(call.N[1]) + 1
        /\ call.out.status = "return"

\* C3 amended: with a hint N0 exactly one pass is made, at the exponent k with
\* 2^(k-1) <= N0 < 2^k; NoConvergence is never raised, and the interpolant is built
\* from that pass's coefficients whether or not it converged.
C3_OneExponent ==
    Hinted =>
        /\ Len(HintPasses) = 1
        /\ Pow2(HintPasses[1].k) > call.N[1]
        /\ Pow2(HintPasses[1].k) <= 2 * call.N[1]
        /\ call.out.status = "return"
        /\ call.out.search.coeffs = HintPasses[1].coeffs
        /\ call.out.ret = from_chebcoeff(HintPasses[1].coeffs, "float", TRUE, DefaultScale)

\* a hinted construction whose only pass did not converge
C3_Witness ==
    /\ Hinted
    /\ Len(HintPasses) = 1
    /\ ~Accepts(HintPasses[1].coeffs)
    /\ call.out.status = "return"

-----------------------------------------------------------------------------
(* Pruning and the transforms: claims C4, C8 *)

Pruning == call.op = "from_chebcoeff" /\ call.prune

\* |c| >= 128 * machineEpsilon * s
Qualifies(c, s) == ScLe(<<s[1], s[2] + 7 - EmachLog2>>, Sc(NAbs(c)))

\* C4: from_chebcoeff with prune keeps the prefix of c up to and including the last
\* coefficient with |c[i]| >= 128*machineEpsilon*s (the first coefficient alone when
\* none qualifies): never empty, never longer than c, every dropped coefficient is
\* below the threshold, and pruning the pruned series again with the same scale
\* changes nothing.
C4_Prune ==
    Pruning =>
        /\ Len(call.pruned) \in 1..Len(call.chebcoeff)
        /\ call.pruned = SubSeq(call.chebcoeff, 1, Len(call.pruned))
        /\ Len(call.pruned) > 1 => Qualifies(call.chebcoeff[Len(call.pruned)], call.scale)
        /\ \A i \in 1..Len(call.chebcoeff) :
              i > Len(call.pruned) => ~Qualifies(call.chebcoeff[i], call.scale)
        /\ call.again => call.pruned = call.chebcoeff
        /\ size(call.out) = Len(call.pruned)

\* a series that lost a nonzero coefficient and kept one equal to the threshold
C4_Witness ==
    /\ Pruning
    /\ Len(call.pruned) = 2
    /\ Len(call.chebcoeff) = 3
    /\ call.chebcoeff[3] # Zero
    /\ NAbs(call.chebcoeff[2]) = call.scale[1]
    /\ call.scale[2] = EmachLog2 - 7

\* the second pruning of a series that the first one shortened
C4_WitnessAgain ==
    /\ Pruning
    /\ call.again
    /\ Len(call.chebcoeff) = 2

RoundTrip == call.op = "chebpolyval" /\ call.of # None

\* C8: chebpolyval(chebpolyfit(values)) has the length of values and equals values,
\* and a vector of length 1 is returned unchanged by either transform.
C8_RoundTrip ==
    /\ RoundTrip => Len(call.out) = Len(call.of) /\ call.out = call.of
    /\ call.op = "chebpolyfit" /\ Len(call.sampled) = 1 => call.out = call.sampled
    /\ call.op = "chebpolyval" /\ Len(call.chebcoeff) = 1 => call.out = call.chebcoeff

\* a round trip of three samples that are neither constant nor symmetric
C8_Witness ==
    /\ RoundTrip
    /\ Len(call.of) = 3
    /\ call.of[1] # call.of[3]
    /\ call.of[2] # call.of[1]
    /\ call.chebcoeff # call.of

-----------------------------------------------------------------------------
(* The methods of an interpolant, by value.  An operand is a record with    *)
(* the fields values, dt, scale, and buf: the array of the heap that holds  *)
(* its values, 0 for a temporary that no variable of the caller holds.      *)

Temp(o) == [values |-> o.values, dt |-> o.dt, scale |-> o.scale, buf |-> 0]

\* cast_scalar: other = Chebfun([other])
cast_scalar(x, dt) == Temp(Chebfun(<<x>>, dt, None))

\* the dtype of chebyshev_coefficients()
CoeffDtype(o) == TransformDtype(size(o), o.dt)

\* an assignment into an array of dtype dt
Cast(dt, x) == IF dt = "int" THEN Trunc(x) ELSE x

\* __neg__: from_data(-self.values())
__neg__(o) == Chebfun([i \in 1..Len(o.values) |-> NNeg(o.values[i])], o.dt, None)

\* __add__: ps[big] and ps[small], with big = (other.size() - self.size() > 0)
Bigger(self, other) == IF size(other) - size(self) > 0 THEN other ELSE self
Smaller(self, other) == IF size(other) - size(self) > 0 THEN self ELSE other

\* padded = np.zeros_like(big_coeffs); padded[:len(small_coeffs)] = small_coeffs
padded(big_coeffs, dt, small_coeffs) ==
    [i \in 1..Len(big_coeffs) |->
        IF i <= Len(small_coeffs) THEN Cast(dt, small_coeffs[i]) ELSE Zero]

\* chebsum = big_coeffs + padded
PadAndAdd(big_coeffs, dt, small_coeffs) ==
    [i \in 1..Len(big_coeffs) |-> NAdd(big_coeffs[i], padded(big_coeffs, dt, small_coeffs)[i])]
chebsum(big, small) ==
    PadAndAdd(chebyshev_coefficients(big), CoeffDtype(big), chebyshev_coefficients(small))

__add__(self, other) ==
    from_chebcoeff(chebsum(Bigger(self, other), Smaller(self, other)),
                   CoeffDtype(Bigger(self, other)), TRUE, ScMax(self.scale, other.scale))

\* __sub__: self + (-other)
__sub__(self, other) == __add__(self, Temp(__neg__(other)))

\* the methods _add_operator installs: from_function(lambda x: op(self(x), other(x)))
Operator(op, self, other) == from_function(OpFn(op, self, other), None)

\* numpy.polynomial.chebyshev.chebval(x, c), by Clenshaw's recursion
RECURSIVE Clenshaw(_, _, _, _, _)
Clenshaw(c, x, i, c0, c1) ==
    IF i > Len(c) THEN NAdd(c0, NMul(c1, x))
    ELSE Clenshaw(c, x, i + 1, NSub(c[Len(c) - i + 1], c1), NAdd(c0, NMul(c1, NMul(Q(2), x))))
chebval(x, c) ==
    IF Len(c) = 1 THEN c[1]
    ELSE Clenshaw(c, x, 3, c[Len(c) - 1], c[Len(c)])

\* c[k] for a 0-based k, 0 out of range
CoefAt(c, k) == IF k + 1 \in 1..Len(c) THEN c[k + 1] ELSE Zero

\* chebint's tmp before the constant: tmp[1] = c[0] - c[2]/2 and
\* tmp[k] = (c[k-1] - c[k+1]) / (2k) for k >= 2
Primitive(c) ==
    [i \in 1..(Len(c) + 1) |->
        IF i = 1 THEN Zero
        ELSE IF i = 2 THEN NSub(CoefAt(c, 0), NMul(CoefAt(c, 2), Half))
        ELSE NMul(NSub(CoefAt(c, i - 2), CoefAt(c, i)), <<1, 0, 2 * (i - 1)>>)]

\* the constant with the lower bound at the left endpoint of the domain
IntegrationConstantLeft(tmp) == NNeg(chebval(Q(-1), tmp))

\* tmp[0] += k[i] - chebval(lbnd, tmp), with chebint's defaults k = 0 and lbnd = 0
IntegrationConstant(tmp) == NNeg(chebval(Zero, tmp))

WithConstant(tmp, k) == [tmp EXCEPT ![1] = NAdd(tmp[1], k)]
Shifted(tmp) == WithConstant(tmp, IntegrationConstant(tmp))

\* numpy.polynomial.chebyshev.chebint(c) with m = 1
chebint(c) == IF Len(c) = 1 /\ c[1] = Zero THEN <<Zero>> ELSE Shifted(Primitive(c))

integrate(o) == from_chebcoeff(chebint(chebyshev_coefficients(o)), "float", TRUE, DefaultScale)

\* differentiator's loop body for k = m-3-2*j
\* the loop body without its second assignment DA[k-1] = SA[k] + DA[k+1]
DescendFirstOnly(SA, DA, k) ==
    [i \in 1..Len(DA) |-> IF i = k + 1 THEN NAdd(SA[k + 2], DA[k + 3]) ELSE DA[i]]

Descend(SA, DA, k) ==
    [i \in 1..Len(DA) |->
        IF i = k + 1 THEN NAdd(SA[k + 2], DA[k + 3])
        ELSE IF i = k THEN NAdd(SA[k + 1], DA[k + 2])
        ELSE DA[i]]
RECURSIVE Descent(_, _, _)
Descent(SA, DA, j) ==
    IF j >= Len(DA) \div 2 - 1 THEN DA
    ELSE Descent(SA, Descend(SA, DA, Len(DA) - 3 - 2 * j), j + 1)

\* DA = zeros; DA[m-3:m-1] = SA[m-2:m]
Seeded(SA) ==
    [i \in 1..Len(SA) |-> IF i \in {Len(SA) - 2, Len(SA) - 1} THEN SA[i + 1] ELSE Zero]

\* differentiator without the final halving of DA[0]
HalveOmitted(SA, DA) == DA

\* DA[0] = (SA[1] + DA[2])*0.5
Halve(SA, DA) == [DA EXCEPT ![1] = NMul(NAdd(SA[2], DA[3]), Half)]

Differentiated(SA) == Halve(SA, Descent(SA, Seeded(SA), 0))

\* differentiator(A)
differentiator(A) ==
    IF Len(A) = 1 THEN <<Zero>>
    ELSE IF Len(A) = 2 THEN <<A[2]>>
    ELSE Differentiated([i \in 1..Len(A) |-> NMul(A[i], Q(2 * (i - 1)))])

RECURSIVE Repeated(_, _)
Repeated(bi, n) == IF n = 0 THEN bi ELSE Repeated(differentiator(bi), n - 1)

differentiate(o, n) ==
    from_chebcoeff(Repeated(chebyshev_coefficients(o), n), CoeffDtype(o), TRUE, DefaultScale)

\* Tints = 2/(1-(2*np.arange(n))**2)
Tints(k) == IF k = 0 THEN Q(2) ELSE Norm(-2, 0, 4 * k * k - 1)

\* sum(): np.sum(Tints*ai[::2])
Quadrature(ai) ==
    NSum([k \in 1..((Len(ai) + 1) \div 2) |-> NMul(Tints(k - 1), ai[2 * k - 1])])
sum(o) == Quadrature(chebyshev_coefficients(o))

\* roots(): the coefficients np.hstack([ai[-1::-1], ai[1:]]) with coeffs[N-1] *= 2
\* that are handed to polyroots
Palindrome(ai) ==
    [i \in 1..(2 * Len(ai) - 1) |->
        IF i < Len(ai) THEN ai[Len(ai) - i + 1]
        ELSE IF i = Len(ai) THEN NMul(ai[1], Q(2))
        ELSE ai[i - Len(ai) + 1]]
roots(o) == [polyroots |-> Palindrome(chebyshev_coefficients(o))]

-----------------------------------------------------------------------------
(* chebfun(f, N, chebcoeff), the construction entry point.  The argument f  *)
(* is a record [kind, v, dt]: kind is its shape, v its payload (a number,   *)
(* an array, a callable, an interpolant), dt the dtype of a number or an    *)
(* array.  An optional array chebcoeff is None or <<[v, dt]>>.              *)

Arg(kind, v, dt) == [kind |-> kind, v |-> v, dt |-> dt]

\* isinstance(f, Chebfun)
IsChebfun(f) == f.kind = "Chebfun"
\* hasattr(f, '__call__'): an interpolant defines __call__
HasCall(f) == f.kind \in {"Chebfun", "callable"}
\* if np.isscalar(f): f = [f]
Listed(f) == IF f.kind = "scalar" THEN Arg("iterable", <<f.v>>, f.dt) ELSE f
\* iter(f) raises no TypeError: an interpolant defines __getitem__
Iterable(f) == f.kind \in {"iterable", "Chebfun"}

\* f as a function to sample
FnOf(f) == IF f.kind = "Chebfun" THEN OpFn("chebfun", f.v, f.v) ELSE f.v

\* from_chebfun(other): self(other.values()), on the array of other itself
from_chebfun(other) == Chebfun(other.values, other.dt, None)

\* the outcome of a construction: the class method taken, the interpolant made and
\* the array of the heap it holds (0: an array of its own)
Made(path, o, share) ==
    [path |-> path, status |-> "return", yields |-> "interpolant", obj |-> o, share |-> share]
Raised(path, status) ==
    [path |-> path, status |-> status, yields |-> "nothing", obj |-> None, share |-> 0]
Sampled(r) ==
    IF r.status = "return" THEN Made("from_function", r.ret, 0)
    ELSE Raised("from_function", r.status)

\* chebfun with the test of chebcoeff made last
chebfunCoeffLast(f, N, chebcoeff) ==
    IF IsChebfun(f) THEN Made("from_chebfun", from_chebfun(f.v), f.v.buf)
    ELSE IF HasCall(f) THEN Sampled(from_function(FnOf(f), N))
    ELSE IF Iterable(Listed(f))
    THEN Made("Chebfun", Chebfun(Listed(f).v, Listed(f).dt, None), 0)
    ELSE IF chebcoeff # None
    THEN Made("from_chebcoeff",
              from_chebcoeff(chebcoeff[1].v, chebcoeff[1].dt, TRUE, DefaultScale), 0)
    ELSE Raised("chebfun", "TypeError")

chebfun(f, N, chebcoeff) ==
    IF chebcoeff # None
    THEN Made("from_chebcoeff",
              from_chebcoeff(chebcoeff[1].v, chebcoeff[1].dt, TRUE, DefaultScale), 0)
    ELSE IF IsChebfun(f) THEN Made("from_chebfun", from_chebfun(f.v), f.v.buf)
    ELSE IF HasCall(f) THEN Sampled(from_function(FnOf(f), N))
    ELSE IF Iterable(Listed(f))
    THEN Made("Chebfun", Chebfun(Listed(f).v, Listed(f).dt, None), 0)
    ELSE Raised("chebfun", "TypeError")

-----------------------------------------------------------------------------
(* The interpolants a caller holds.  objs[i] is the i-th interpolant kept:  *)
(* the array bufs[objs[i].buf] of its values and its scale.  A call leaves  *)
(* its result in call; the caller keeps it (Keep) or lets it go (Return).   *)

\* the number of interpolants the caller keeps
MaxObjs == 2
\* the highest order n of differentiate(n)
MaxOrder == 2

Handle(i) ==
    [values |-> bufs[objs[i].buf].data, dt |-> bufs[objs[i].buf].dt,
     scale |-> objs[i].scale, buf |-> objs[i].buf]

Held == 1..Len(objs)

\* the arguments given to chebfun and to the operators
HeapScalars == {Arg("scalar", One, "int"), Arg("scalar", Half, "float")}
HeapArrays == {Arg("iterable", <<One, Q(-1)>>, "float"), Arg("iterable", <<One, One>>, "float")}
HeapLambdas == {Arg("callable", PolyFn(<<Zero, One>>), ""),
                Arg("callable", PolyFn(<<Zero, Zero, One>>), "")}
HeapCoeffs == {None, <<Arg("iterable", <<Zero, One, Zero>>, "float")>>}
Hints == {None, <<MaxHint>>}

\* the right operand of a binary operator: an interpolant held
Others == {Handle(j) : j \in Held}
\* the right operand of +: an interpolant held, or a scalar (cast_scalar)
Addends == Others \cup {cast_scalar(Half, "float")}
\* the exponent of **
Exponents == Others \cup {cast_scalar(Q(2), "int")}

\* a method's result: an interpolant with an array of its own, or a plain value
Yield(op, self, args, o) ==
    [op |-> op, self |-> self, args |-> args, status |-> "return",
     yields |-> "interpolant", obj |-> o, share |-> 0]
Value(op, self, args, v) ==
    [op |-> op, self |-> self, args |-> args, status |-> "return",
     yields |-> "value", val |-> v]
Outcome(op, self, args, r) ==
    IF r.status = "return" THEN Yield(op, self, args, r.ret)
    ELSE [op |-> op, self |-> self, args |-> args, status |-> r.status, yields |-> "nothing"]

\* the search of from_function(f, N) stays on the grids of the model
Exact(f, N) == ExactArgs(f, DichotomyArgs(N))

CallChebfun(f, N, chebcoeff) ==
    /\ call = Idle
    /\ f.kind = "callable" => Exact(f.v, N)
    /\ call' = [op |-> "chebfun", f |-> f, N |-> N, chebcoeff |-> chebcoeff]
                  @@ chebfun(f, N, chebcoeff)
    /\ UNCHANGED <<bufs, objs>>

Evaluation(i, x) ==
    /\ call = Idle
    /\ call' = Value("__call__", i, x, Evaluate(Handle(i), x))
    /\ UNCHANGED <<bufs, objs>>

\* the arrays after big_coeffs += padded, which writes into the values of a
\* big operand of size 1
AddStoreInPlace(big, total) ==
    IF big.buf # 0 /\ size(big) = 1
    THEN [bufs EXCEPT ![big.buf] = [data |-> total, dt |-> big.dt]]
    ELSE bufs

\* the arrays after chebsum = big_coeffs + padded, which allocates its result
AddStore(big, total) == bufs

Addition(i, other) ==
    /\ call = Idle
    /\ call' = Yield("__add__", i, other, __add__(Handle(i), other))
    /\ bufs' = AddStore(Bigger(Handle(i), other),
                        chebsum(Bigger(Handle(i), other), Smaller(Handle(i), other)))
    /\ UNCHANGED objs

Subtraction(i, other) ==
    /\ call = Idle
    /\ call' = Yield("__sub__", i, other, __sub__(Handle(i), other))
    /\ UNCHANGED <<bufs, objs>>

Negation(i) ==
    /\ call = Idle
    /\ call' = Yield("__neg__", i, None, __neg__(Handle(i)))
    /\ UNCHANGED <<bufs, objs>>

\* the operands for which op(self(x), other(x)) is a number of the model on the grid
\* that the search samples first
Defined(op, other) ==
    CASE op = "__mul__" -> TRUE
      [] op = "__div__" ->
            \A x \in {Q(-1), <<0, -1, 2>>, Zero, <<0, 1, 2>>, One} : Evaluate(other, x) # Zero
      [] op = "__pow__" -> other.values \in {<<Q(n)>> : n \in 0..2}

Operation(op, i, other) ==
    /\ call = Idle
    /\ Defined(op, other)
    /\ Exact(OpFn(op, Handle(i), other), None)
    /\ call' = Outcome(op, i, other, Operator(op, Handle(i), other))
    /\ UNCHANGED <<bufs, objs>>

Differentiation(i, n) ==
    /\ call = Idle
    /\ call' = Yield("differentiate", i, n, differentiate(Handle(i), n))
    /\ UNCHANGED <<bufs, objs>>

Integration(i) ==
    /\ call = Idle
    /\ size(Handle(i)) \in ExactDegrees
    /\ call' = Yield("integrate", i, None, integrate(Handle(i)))
    /\ UNCHANGED <<bufs, objs>>

\* f.integrate().differentiate()
DifferentiationOfIntegral(i) ==
    /\ call = Idle
    /\ size(Handle(i)) \in ExactDegrees
    /\ call' = Yield("integrate.differentiate", i, None,
                     differentiate(Temp(integrate(Handle(i))), 1))
    /\ UNCHANGED <<bufs, objs>>

Summation(i) ==
    /\ call = Idle
    /\ call' = Value("sum", i, None, sum(Handle(i)))
    /\ UNCHANGED <<bufs, objs>>

Roots(i) ==
    /\ call = Idle
    /\ call' = Value("roots", i, None, roots(Handle(i)))
    /\ UNCHANGED <<bufs, objs>>

Coefficients(i) ==
    /\ call = Idle
    /\ call' = Value("chebyshev_coefficients", i, None, chebyshev_coefficients(Handle(i)))
    /\ UNCHANGED <<bufs, objs>>

Size(i) ==
    /\ call = Idle
    /\ call' = Value("size", i, None, size(Handle(i)))
    /\ UNCHANGED <<bufs, objs>>

\* the caller binds the interpolant returned to a variable
Keep ==
    /\ call # Idle
    /\ call.yields = "interpolant"
    /\ Len(objs) < MaxObjs
    /\ bufs' = IF call.share = 0
               THEN Append(bufs, [data |-> call.obj.values, dt |-> call.obj.dt])
               ELSE bufs
    /\ objs' = Append(objs, [buf |-> IF call.share = 0 THEN Len(bufs) + 1 ELSE call.share,
                             scale |-> call.obj.scale])
    /\ call' = Idle

\* the caller is done with the result, or has caught the exception
Return ==
    /\ call # Idle
    /\ call' = Idle
    /\ UNCHANGED <<bufs, objs>>

Init ==
    /\ bufs = <<>>
    /\ objs = <<>>
    /\ call = Idle

Next ==
    \/ \E f \in HeapScalars \cup HeapArrays \cup HeapLambdas
                \cup {Arg("None", <<>>, ""), Arg("other", <<>>, "")},
          N \in Hints, chebcoeff \in HeapCoeffs : CallChebfun(f, N, chebcoeff)
    \/ \E i \in Held, N \in Hints, chebcoeff \in HeapCoeffs :
          CallChebfun(Arg("Chebfun", Handle(i), ""), N, chebcoeff)
    \/ \E i \in Held, x \in {Q(-1), Half} : Evaluation(i, x)
    \/ \E i \in Held : \E other \in Addends : Addition(i, other)
    \/ \E i \in Held : \E other \in Others : Subtraction(i, other)
    \/ \E i \in Held : Negation(i)
    \/ \E i \in Held, op \in {"__mul__", "__div__"} :
          \E other \in Others : Operation(op, i, other)
    \/ \E i \in Held : \E other \in Exponents : Operation("__pow__", i, other)
    \/ \E i \in Held, n \in 1..MaxOrder : Differentiation(i, n)
    \/ \E i \in Held : Integration(i)
    \/ \E i \in Held : DifferentiationOfIntegral(i)
    \/ \E i \in Held : Summation(i)
    \/ \E i \in Held : Roots(i)
    \/ \E i \in Held : Coefficients(i)
    \/ \E i \in Held : Size(i)
    \/ Keep
    \/ Return

Spec == Init /\ [][Next]_vars

-----------------------------------------------------------------------------
(* Addition: claim C5 *)

Added == call.op = "__add__"

PadTo(c, n) == [i \in 1..n |-> IF i <= Len(c) THEN c[i] ELSE Zero]
Longer(a, b) == IF Len(a) >= Len(b) THEN Len(a) ELSE Len(b)
\* the elementwise sum of two series, the shorter padded with zeros
PaddedSum(a, b) ==
    [i \in 1..Longer(a, b) |-> NAdd(PadTo(a, Longer(a, b))[i], PadTo(b, Longer(a, b))[i])]

\* r is c without trailing coefficients that are negligible at scale s
PrunedFrom(r, c, s) ==
    /\ Len(r) \in 1..Len(c)
    /\ r = SubSeq(c, 1, Len(r))
    /\ \A i \in 1..Len(c) : i > Len(r) => ~Qualifies(c[i], s)

\* C5: the coefficients of f + g are the elementwise sum of the operands' series, the
\* shorter one padded with zeros, whichever operand is the longer (read with the
\* spec's "exact up to pruning": trailing coefficients that are negligible at the
\* larger of the two scales may be missing from the result).
C5_PaddedSum ==
    Added =>
        PrunedFrom(chebyshev_coefficients(call.obj),
                   PaddedSum(chebyshev_coefficients(Handle(call.self)),
                             chebyshev_coefficients(call.args)),
                   ScMax(Handle(call.self).scale, call.args.scale))

\* C5 to the letter: the result's series is the padded sum itself
C5_PaddedSumUnpruned ==
    Added =>
        chebyshev_coefficients(call.obj) =
            PaddedSum(chebyshev_coefficients(Handle(call.self)),
                      chebyshev_coefficients(call.args))

\* the padded sum holds, up to pruning, whenever no operand's coefficients are integers
C5_FloatOperands ==
    Added /\ CoeffDtype(Handle(call.self)) = "float" /\ CoeffDtype(call.args) = "float" =>
        PrunedFrom(chebyshev_coefficients(call.obj),
                   PaddedSum(chebyshev_coefficients(Handle(call.self)),
                             chebyshev_coefficients(call.args)),
                   ScMax(Handle(call.self).scale, call.args.scale))

\* a sum whose right operand is the longer one
C5_WitnessLongerRight ==
    /\ Added
    /\ size(call.args) > size(Handle(call.self))
    /\ size(call.obj) = size(call.args)

-----------------------------------------------------------------------------
(* Calculus: claims C6, C7 *)

Integrated == call.op = "integrate"

\* b is a primitive of a: b[1] = a[0] - a[2]/2 and 2k b[k] = a[k-1] - a[k+1], k >= 2
PrimitiveOf(b, a) ==
    \A k \in 1..Len(a) :
        NMul(Q(2 * k), CoefAt(b, k)) =
            IF k = 1 THEN NSub(NMul(Q(2), CoefAt(a, 0)), CoefAt(a, 2))
            ELSE NSub(CoefAt(a, k - 1), CoefAt(a, k + 1))

\* C6 as stated: integrate() returns the primitive F that is zero at x = -1
C6_ZeroAtLeft ==
    Integrated =>
        /\ PrimitiveOf(chebyshev_coefficients(call.obj),
                       chebyshev_coefficients(Handle(call.self)))
        /\ Evaluate(call.obj, Q(-1)) = Zero

\* what integrate() returns instead: the primitive F that is zero at x = 0
C6_ZeroAtOrigin ==
    Integrated =>
        /\ PrimitiveOf(chebyshev_coefficients(call.obj),
                       chebyshev_coefficients(Handle(call.self)))
        /\ Evaluate(call.obj, Zero) = Zero

\* the primitive of an interpolant that is not constant, and is not zero at x = -1
C6_Witness ==
    /\ Integrated
    /\ size(Handle(call.self)) >= 2
    /\ size(call.obj) = size(Handle(call.self)) + 1
    /\ Evaluate(call.obj, Q(-1)) # Zero

Roundabout == call.op = "integrate.differentiate"

-----------------------------------------------------------------------------
(* Construction and immutability: claims C9, C10 *)

Constructing == call.op = "chebfun"

\* the one path chebfun is to take for its arguments
Path ==
    IF call.chebcoeff # None THEN "from_chebcoeff"
    ELSE IF call.f.kind = "Chebfun" THEN "from_chebfun"
    ELSE IF call.f.kind = "callable" THEN "from_function"
    ELSE IF call.f.kind \in {"scalar", "iterable"} THEN "Chebfun"
    ELSE "chebfun"

\* C9: chebfun(f, N, chebcoeff) takes one path, in the priority: a coefficient series
\* (pruned and inverse-transformed, f and N ignored); else an interpolant (its values,
\* not sampled); else a callable (adaptive construction with the hint N); else a
\* scalar or an iterable (the values as given); else a TypeError and no interpolant.
C9_Dispatch ==
    Constructing =>
        /\ call.path = Path
        /\ Path = "from_chebcoeff" =>
              /\ call.yields = "interpolant"
              /\ call.obj.values =
                    chebpolyval(pruned_coeffs(call.chebcoeff[1].v, TRUE, DefaultScale))
        /\ Path = "from_chebfun" =>
              /\ call.yields = "interpolant"
              /\ call.obj.values = call.f.v.values
        /\ Path = "from_function" =>
              /\ call.status = from_function(call.f.v, call.N).status
              /\ call.yields = "interpolant" => call.obj = from_function(call.f.v, call.N).ret
        /\ Path = "Chebfun" =>
              /\ call.yields = "interpolant"
              /\ call.obj.values = (IF call.f.kind = "scalar" THEN <<call.f.v>> ELSE call.f.v)
              /\ call.obj.scale = Sc(MaxAbs(call.obj.values))
        /\ Path = "chebfun" => call.status = "TypeError" /\ call.yields = "nothing"

\* an interpolant handed to chebfun with a hint: it is callable, and is copied
C9_Witness ==
    /\ Constructing
    /\ call.f.kind = "Chebfun"
    /\ call.N # None
    /\ call.chebcoeff = None
    /\ call.path = "from_chebfun"
    /\ size(call.obj) = 3

\* a callable handed to chebfun together with a coefficient series
C9_WitnessIgnored ==
    /\ Constructing
    /\ call.f.kind = "callable"
    /\ call.chebcoeff # None
    /\ call.path = "from_chebcoeff"
    /\ size(call.obj) = 2

Methods ==
    {"__call__", "__add__", "__sub__", "__neg__", "__mul__", "__div__", "__pow__",
     "differentiate", "integrate", "integrate.differentiate", "sum", "roots",
     "chebyshev_coefficients", "size"}

\* C10: no step changes the array or the scale of an interpolant that exists, none
\* removes one, and an interpolant that a method returned is kept as a new object on
\* an array that no earlier interpolant holds.
C10_Immutable ==
    [][/\ \A i \in 1..Len(objs) :
             /\ i <= Len(objs')
             /\ objs'[i] = objs[i]
             /\ bufs'[objs[i].buf] = bufs[objs[i].buf]
       /\ call.op \in Methods /\ Len(objs') > Len(objs) =>
             /\ Len(objs') = Len(objs) + 1
             /\ \A i \in 1..Len(objs) : objs[i].buf # objs'[Len(objs')].buf]_vars

\* a sum of two interpolants of one value each, both held by the caller: the
\* coefficients that __add__ adds up are the very array of self's values
C10_Witness ==
    /\ Added
    /\ size(Handle(call.self)) = 1
    /\ size(call.args) = 1
    /\ call.args.buf # 0
    /\ Len(objs) = MaxObjs

-----------------------------------------------------------------------------
(* Scale: claim C11 *)

\* the scale of o is not negative and is the greatest absolute value among its values
ScaleOfValues(o) ==
    /\ ScLe(Sc(Zero), o.scale)
    /\ ScCmp(o.scale, Sc(MaxAbs(o.values))) = 0

\* the interpolant a factory or a method has just returned
Fresh == call # Idle /\ call.yields = "interpolant"

\* C11: the scale of every interpolant, whether made by a factory (values, coefficient
\* series, copy, callable) or returned by an operation, is non-negative and equals the
\* maximum absolute value of its own values.
C11_ScaleIsMaxAbs ==
    /\ \A i \in Held : ScaleOfValues(Handle(i))
    /\ Fresh => ScaleOfValues(call.obj)

\* where the scale is computed from the values it does hold: the value constructor,
\* the copy and the negation pass no scale to __init__
C11_ScaleComputed ==
    /\ Fresh /\ call.op = "chebfun" /\ call.path \in {"Chebfun", "from_chebfun"} =>
          ScaleOfValues(call.obj)
    /\ Fresh /\ call.op = "__neg__" => ScaleOfValues(call.obj)

\* every scale is non-negative, and a series handed to from_chebcoeff without a
\* scale gives an interpolant of scale 1 whatever its values
C11_ScaleDefault ==
    /\ \A i \in Held : ScLe(Sc(Zero), Handle(i).scale)
    /\ Fresh /\ call.op \in {"differentiate", "integrate", "__mul__", "__div__", "__pow__"} =>
          call.obj.scale = DefaultScale

-----------------------------------------------------------------------------
(* Degenerate inputs: claim C12 *)

AllZero(s) == \A i \in 1..Len(s) : s[i] = Zero

\* from_function was called with a function that is zero at every node of its first grid
SampledZero ==
    /\ call.op = "from_function"
    /\ AllZero(sample_function(call.f, Pow2(DichotomyArgs(call.N).kmin)))

\* C12: adaptive construction from a function that is zero at every node is accepted
\* at the first trial, with bound 0 and last two coefficients 0, and returns an
\* interpolant of one value, 0; construction from one sample value returns an
\* interpolant of that one value, which is constant; neither raises.
C12_Degenerate ==
    /\ SampledZero =>
          /\ call.out.status = "return"
          /\ Len(call.out.search.trials) = 1
          /\ call.out.search.trials[1].k = DichotomyArgs(call.N).kmin
          /\ ScCmp(call.out.search.trials[1].bnd, Sc(Zero)) = 0
          /\ call.out.search.trials[1].last = <<Zero, Zero>>
          /\ Accepts(call.out.search.trials[1].coeffs)
          /\ call.out.ret.values = <<Zero>>
          /\ Evaluate(call.out.ret, Half) = Zero
    /\ call.op = "from_data" /\ Len(call.data) = 1 =>
          /\ call.out.values = call.data
          /\ size(call.out) = 1
          /\ \A x \in {Q(-1), Zero, Half} : Evaluate(call.out, x) = call.data[1]

\* the zero function, constructed over the default range of the search
C12_Witness ==
    /\ SampledZero
    /\ call.N = None
    /\ AllZero(call.f.c)
    /\ call.out.status = "return"
    /\ size(call.out.ret) = 1

\* a function that is zero at the nodes only: x^3 - x on the three nodes of the hint 1
C12_WitnessNodesOnly ==
    /\ SampledZero
    /\ ~AllZero(call.f.c)
    /\ size(call.out.ret) = 1

\* one sample value that is not zero
C12_WitnessSingle ==
    /\ call.op = "from_data"
    /\ call.data = <<Half>>
    /\ size(call.out) = 1

-----------------------------------------------------------------------------
(* The array behind values(): claim C13 *)

\* values() returns self._values itself; the caller's a = f.values(); a[k] = v writes
\* into that array (v is cast to the array's dtype)
StoreThroughValues(i, k, v) ==
    /\ call = Idle
    /\ k \in 1..size(Handle(i))
    /\ bufs' = [bufs EXCEPT ![objs[i].buf].data[k] = Cast(bufs[objs[i].buf].dt, v)]
    /\ call' = Value("values", i, <<k, v>>, bufs'[objs[i].buf].data)
    /\ UNCHANGED objs

\* interpolants from values, copies of them, and writes through values()
NextStore ==
    \/ \E f \in HeapScalars \cup HeapArrays : CallChebfun(f, None, None)
    \/ \E i \in Held : CallChebfun(Arg("Chebfun", Handle(i), ""), None, None)
    \/ \E i \in Held, k \in 1..MaxLen, v \in {Zero, Q(2)} : StoreThroughValues(i, k, v)
    \/ \E i \in Held, x \in {Q(-1), Half} : Evaluation(i, x)
    \/ Keep
    \/ Return

SpecStore == Init /\ [][NextStore]_vars

\* C13: an interpolant made by the copy factory shares no state with its source: a
\* write through the array that values() of one interpolant returns changes the
\* values of no other interpolant (the array of every other interpolant is as before).
C13_NoSharedState ==
    [][call'.op = "values" =>
          \A j \in 1..Len(objs) : j # call'.self => Handle(j).values = bufs'[objs[j].buf].data]_vars

\* the same on the heap: no two interpolants hold one array
C13_OwnArrays == \A i \in Held : \A j \in Held : i # j => objs[i].buf # objs[j].buf

-----------------------------------------------------------------------------
(* The differentiation step and the root finder, called on their own *)

\* the longest coefficient vector handed to differentiator
MaxTerms == 6

CallDifferentiator(A) ==
    /\ call = Idle
    /\ call' = [op |-> "differentiator", A |-> A, out |-> differentiator(A)]
    /\ UNCHANGED <<bufs, objs>>

\* Chebfun(data).differentiate(n)
CallDifferentiate(data, n) ==
    /\ call = Idle
    /\ call' = [op |-> "differentiate", data |-> data, n |-> n,
                out |-> differentiate(Chebfun(data, "float", None), n)]
    /\ UNCHANGED <<bufs, objs>>

\* the tolerance of np.allclose(abs(r), 1.), atol + rtol * 1 = 1e-8 + 1e-5, in units of 1e-9
AllcloseTol == 10010

\* roots() on the roots the solver returned.  A complex root r is [re, d]: its real
\* part, and its modulus as abs(r) = 1 + d * 1e-9.
\* real_roots = [np.real(r) for r in complex_roots if np.allclose(abs(r), 1.)],
\* then np.unique: the distinct values in increasing order
RealRootsAll(complex_roots) ==
    LET real_roots == {complex_roots[i].re : i \in 1..Len(complex_roots)}
    IN  CHOOSE s \in [1..Cardinality(real_roots) -> real_roots] :
            \A i \in 1..Len(s) : \A j \in 1..Len(s) : i < j => NSgn(NSub(s[j], s[i])) > 0

RealRoots(complex_roots) ==
    LET real_roots == {complex_roots[i].re :
                          i \in {i \in 1..Len(complex_roots) :
                                    IAbs(complex_roots[i].d) <= AllcloseTol}}
    IN  CHOOSE s \in [1..Cardinality(real_roots) -> real_roots] :
            \A i \in 1..Len(s) : \A j \in 1..Len(s) : i < j => NSgn(NSub(s[j], s[i])) > 0

\* Chebfun(data).roots(), with complex_roots what polyroots returns for the series
\* handed to it: none for a series that is constant once its trailing zeros are
\* trimmed, the one root -c[0]/c[1] of a linear one (0 here, of modulus 0), and
\* otherwise as many roots as the degree, whichever they are
CallRoots(data, complex_roots) ==
    /\ call = Idle
    /\ LET c == roots(Chebfun(data, "float", None)).polyroots
           n == IF \E i \in 1..Len(c) : c[i] # Zero
                THEN CHOOSE i \in 1..Len(c) : c[i] # Zero /\ \A j \in 1..Len(c) : j > i => c[j] = Zero
                ELSE 1
       IN  /\ n < 2 => complex_roots = <<>>
           /\ n = 2 => complex_roots = <<[re |-> NNeg(NDiv(c[1], c[2])), d |-> -1000000000]>>
           /\ n > 2 => Len(complex_roots) = n - 1
           /\ n = 2 => c[1] = Zero
           /\ call' = [op |-> "roots", data |-> data, polyroots |-> c,
                       complex_roots |-> complex_roots, out |-> RealRoots(complex_roots)]
    /\ UNCHANGED <<bufs, objs>>

NextCalc ==
    \/ \E A \in SeqsUpTo({Q(-1), Zero, One}, MaxTerms) : CallDifferentiator(A)
    \/ \E data \in Arrays, n \in 1..MaxOrder : CallDifferentiate(data, n)
    \/ \E data \in {<<One>>, <<Zero, Zero>>, <<One, One>>, <<One, Q(-1)>>, <<One, Zero, One>>} :
          \E complex_roots \in {<<>>} \cup SeqsUpTo({[re |-> Zero, d |-> -5],
                                                     [re |-> Half, d |-> 5000],
                                                     [re |-> Q(-1), d |-> 1000000000]}, 4)
                                       \cup {<<[re |-> Zero, d |-> -1000000000]>>} :
              CallRoots(data, complex_roots)

SpecCalc == InitFn /\ [][NextCalc]_vars

-----------------------------------------------------------------------------
(* The differentiation step: claim C14 *)

Stepped == call.op = "differentiator"

\* the recurrence between a and b, both indexed from 0, for m = Len(a) >= 3
Recurrence(a, b, m) ==
    /\ CoefAt(b, m - 2) = NMul(Q(2 * (m - 1)), CoefAt(a, m - 1))
    /\ m - 3 >= 1 => CoefAt(b, m - 3) = NMul(Q(2 * (m - 2)), CoefAt(a, m - 2))
    /\ \A k \in 1..(m - 4) :
          CoefAt(b, k) = NAdd(NMul(Q(2 * (k + 1)), CoefAt(a, k + 1)), CoefAt(b, k + 2))
    /\ CoefAt(b, 0) =
          NMul(Half, NAdd(NMul(Q(2), CoefAt(a, 1)), IF m = 3 THEN Zero ELSE CoefAt(b, 2)))

\* m = 1 and m = 2
ShortStep(a, b) ==
    /\ Len(a) = 1 => b = <<Zero>>
    /\ Len(a) = 2 => b = <<a[2]>>

\* differentiate(n) is n steps: the n-th derivative is the derivative of the (n-1)-th
StepsCompose ==
    call.op = "differentiate" /\ call.n >= 2 =>
        call.out.values =
            differentiate(differentiate(Chebfun(call.data, "float", None), call.n - 1), 1).values

\* C14 as stated: a step on m >= 3 coefficients returns exactly m - 1 coefficients
C14_StepShorter ==
    Stepped =>
        /\ ShortStep(call.A, call.out)
        /\ Len(call.A) >= 3 =>
              /\ Len(call.out) = Len(call.A) - 1
              /\ Recurrence(call.A, call.out, Len(call.A))

\* C14 amended: one step on a vector a of length m returns [0] for m = 1, [a[1]] for
\* m = 2, and for m >= 3 a vector of m coefficients: b[0..m-2] by the recurrence
\* b[m-2] = 2(m-1)a[m-1], b[m-3] = 2(m-2)a[m-2], b[k] = 2(k+1)a[k+1] + b[k+2] for the
\* remaining k >= 1, b[0] = (2a[1] + b[2])/2, for even and odd m, followed by a last
\* coefficient b[m-1] = 0; differentiate(n) applies the step n times.
C14_Step ==
    /\ Stepped =>
          /\ ShortStep(call.A, call.out)
          /\ Len(call.A) >= 3 =>
                /\ Len(call.out) = Len(call.A)
                /\ call.out[Len(call.A)] = Zero
                /\ Recurrence(call.A, call.out, Len(call.A))
    /\ StepsCompose

\* a step on six coefficients that goes twice through the loop
C14_Witness ==
    /\ Stepped
    /\ Len(call.A) = MaxTerms
    /\ call.out[2] # Zero
    /\ call.out[2] # NMul(Q(4), call.A[3])

\* a step on an odd number of coefficients, five
C14_WitnessOdd ==
    /\ Stepped
    /\ Len(call.A) = 5
    /\ call.out[2] # NMul(Q(4), call.A[3])

\* a second derivative that is not zero
C14_WitnessTwice ==
    /\ call.op = "differentiate"
    /\ call.n = 2
    /\ call.out.values # <<Zero>>

-----------------------------------------------------------------------------
(* The root finder: claim C15 *)

Solving == call.op = "roots"

\* [a_N, ..., a_1, 2*a_0, a_1, ..., a_N] for the series a = a_0..a_N
PalindromeOf(a) ==
    [i \in 1..(2 * Len(a) - 1) |->
        IF i = Len(a) THEN NMul(Q(2), a[1]) ELSE a[IAbs(i - Len(a)) + 1]]

\* the real parts of the complex roots whose modulus is within tol * 1e-9 of 1
Kept(tol) ==
    {call.complex_roots[i].re :
        i \in {i \in 1..Len(call.complex_roots) : IAbs(call.complex_roots[i].d) <= tol}}

\* roots() solved the palindromic sequence and returned the real parts of the roots
\* within tol of the unit circle, each once and in increasing order, none if none is
RootsWithin(tol) ==
    Solving =>
        /\ call.polyroots =
              PalindromeOf(chebyshev_coefficients(Chebfun(call.data, "float", None)))
        /\ {call.out[i] : i \in 1..Len(call.out)} = Kept(tol)
        /\ \A i \in 1..Len(call.out) : \A j \in 1..Len(call.out) :
              i < j => NSgn(NSub(call.out[j], call.out[i])) > 0
        /\ Kept(tol) = {} => call.out = <<>>

C15_WitnessConstant ==
    /\ Solving
    /\ Len(call.data) = 1
    /\ call.complex_roots = <<>>
    /\ call.out = <<>>

\* roots, none of them near the circle: an empty result
C15_WitnessNoneNear ==
    /\ Solving
    /\ Len(call.complex_roots) >= 2
    /\ call.out = <<>>

=============================================================================
